---- MODULE Spec2Model ----
(***************************************************************************)
(* Model of src/src/chapter_two.rs: struct Model, an owning container of   *)
(* Points and Lines stored in two BTreeMaps keyed by integer handles.      *)
(*                                                                         *)
(* A BTreeMap<usize, V> is a function whose DOMAIN is the set of keys.     *)
(* A Vec<LineHandle> is a sequence.  A panic (BTreeMap's Index on a        *)
(* missing key) unwinds out of the call before any mutation: the call does *)
(* not return normally and the two maps are what they were.  A panic ends  *)
(* the run: whatever a caller that catches it does next, it can do from    *)
(* the state before the panicking call, which is the same state.           *)
(***************************************************************************)
EXTENDS Integers, Sequences, FiniteSets, TLC

\* ------------------------------------------------------------------ bounds
\* Number of API calls in a run.
MaxCalls == 5
\* Handles the caller passes as arguments are drawn from 1..MaxArg, and a run
\* makes no add call that would hand out a handle beyond them.
MaxArg == 2

\* Coordinate quadruples (x, y, z, w) the caller passes to add_point.
CoordInputs == { <<1, 1, 1, 0>>, <<-1, 2, -3, 4>> }

ArgHandles == 1..MaxArg

OpNames == {"add_point", "add_line", "get_point_lines", "del_line", "del_point"}

\* ------------------------------------------------------------------- state
VARIABLES
    points,     \* Model.points : BTreeMap<PointHandle, Point>
    lines,      \* Model.lines  : BTreeMap<LineHandle, Line>
    \* history of the run (not program state)
    op,         \* name of the last call ("new" right after construction)
    args,       \* arguments of the last call
    ret,        \* value the last call returned (<<>> for unit, or on panic)
    outcome,    \* "ok" if the last call returned, "panic" if it panicked
    old,        \* [points, lines] as they were before the last call
    repeated,   \* the last call is the call before it made again, same arguments
    issued,     \* handles returned by add calls before the last call
    cascaded,   \* line handles removed from lines by a del_point loop
    dangled,    \* some add_line call named a handle that was not a stored point
    order,      \* stored point / line handles, in the order their add calls ran
    count       \* number of calls made so far, per operation

vars == <<points, lines, op, args, ret, outcome, old, repeated, issued, cascaded,
          dangled, order, count>>

\* --------------------------------------------------------- BTreeMap / Vec
Max(S) == CHOOSE m \in S : \A k \in S : k <= m

Range(s) == { s[i] : i \in 1..Len(s) }

\* BTreeMap::insert
insert(m, key, value) ==
    [k \in DOMAIN m \cup {key} |-> IF k = key THEN value ELSE m[k]]

\* remove written as split_off: drops the key and every greater key
remove_split_off(m, key) == [k \in {j \in DOMAIN m : j < key} |-> m[k]]

\* BTreeMap::remove (the removed value is discarded by every caller)
remove(m, key) == [k \in DOMAIN m \ {key} |-> m[k]]

\* Point { x, y, z, w, lines: Vec::new() }
Point(x, y, z, w) == [x |-> x, y |-> y, z |-> z, w |-> w, lines |-> <<>>]

\* Line { p1, p2 }
Line(p1, p2) == [p1 |-> p1, p2 |-> p2]

\* handle taken from the number of stored points instead of the last key
new_point_handle_len(pts) == Cardinality(DOMAIN pts) + 1

\* handle numbering that starts at 0 on an empty map
new_point_handle_zero(pts) ==
    IF DOMAIN pts = {} THEN 0 ELSE Max(DOMAIN pts) + 1

\* handle taken from the smallest free key instead of the last key
new_point_handle_free(pts) ==
    CHOOSE h \in 1..(Cardinality(DOMAIN pts) + 1) :
        h \notin DOMAIN pts /\ \A k \in 1..(h - 1) : k \in DOMAIN pts

\* the handle add_point allocates
new_point_handle(pts) ==
    IF DOMAIN pts = {} THEN 1 ELSE Max(DOMAIN pts) + 1

\* handle that is the last key itself, without the + 1
new_line_handle_last(lns) ==
    IF DOMAIN lns = {} THEN 1 ELSE Max(DOMAIN lns)

\* handle taken from the number of stored lines instead of the last key
new_line_handle_len(lns) == Cardinality(DOMAIN lns) + 1

\* the handle add_line allocates
new_line_handle(lns) ==
    IF DOMAIN lns = {} THEN 1 ELSE Max(DOMAIN lns) + 1

\* add_line_to_point written with entry().or_insert: an absent point is
\* created instead of skipped
add_line_to_point_or_insert(pts, point_handle, line_handle) ==
    IF point_handle \in DOMAIN pts
    THEN [pts EXCEPT ![point_handle].lines = Append(@, line_handle)]
    ELSE insert(pts, point_handle,
                [Point(0, 0, 0, 0) EXCEPT !.lines = <<line_handle>>])

\* add_line_to_point pushing the wrong one of its two handles
add_line_to_point_swapped(pts, point_handle, line_handle) ==
    IF point_handle \in DOMAIN pts
    THEN [pts EXCEPT ![point_handle].lines = Append(@, point_handle)]
    ELSE pts

\* fn add_line_to_point
add_line_to_point(pts, point_handle, line_handle) ==
    IF point_handle \in DOMAIN pts
    THEN [pts EXCEPT ![point_handle].lines = Append(@, line_handle)]
    ELSE pts

\* get_point_lines written with get().map().unwrap_or_default(): an absent
\* key yields an empty list instead of a panic
get_point_lines_lenient(pts, handle) ==
    IF handle \in DOMAIN pts
    THEN [panic |-> FALSE, value |-> pts[handle].lines]
    ELSE [panic |-> FALSE, value |-> <<>>]

\* fn get_point_lines: self.points[&handle].lines.to_vec(); Index panics
\* when the key is absent.
get_point_lines(pts, handle) ==
    IF handle \in DOMAIN pts
    THEN [panic |-> FALSE, value |-> pts[handle].lines]
    ELSE [panic |-> TRUE, value |-> <<>>]

\* loop that stops after its first element
remove_each_first(lns, handles) ==
    IF handles = <<>> THEN lns ELSE remove(lns, Head(handles))

\* the loop of del_point: self.lines.remove(&handle) for each element
RECURSIVE remove_each(_, _)
remove_each(lns, handles) ==
    IF handles = <<>> THEN lns
    ELSE remove_each(remove(lns, Head(handles)), Tail(handles))

\* ----------------------------------------------------------------- history
Total == count.add_point + count.add_line + count.get_point_lines
         + count.del_line + count.del_point

\* a call is made only while the run goes on
Running == Total < MaxCalls /\ outcome = "ok"

\* seq without the handles that left the map, then the handle that entered it
Track(seq, before, after) ==
    LET Kept(h) == h \in after
        kept == SelectSeq(seq, Kept)
        new == after \ before
    IN IF new = {} THEN kept ELSE Append(kept, CHOOSE h \in new : TRUE)

\* what every call records about the run; it follows the call's updates of
\* points and lines
Record(name, a, r, out) ==
    /\ op' = name
    /\ args' = a
    /\ ret' = r
    /\ outcome' = out
    /\ old' = [points |-> points, lines |-> lines]
    /\ repeated' = (op = name /\ args = a)
    /\ issued' = [points |-> issued.points \cup
                              (IF op = "add_point" THEN {ret} ELSE {}),
                  lines  |-> issued.lines \cup
                              (IF op = "add_line" THEN {ret} ELSE {})]
    /\ dangled' = (dangled \/ (name = "add_line"
                                 /\ \E i \in 1..2 : a[i] \notin DOMAIN points))
    /\ order' = [points |-> Track(order.points, DOMAIN points, DOMAIN points'),
                 lines  |-> Track(order.lines, DOMAIN lines, DOMAIN lines')]
    /\ count' = [count EXCEPT ![name] = @ + 1]

\* ------------------------------------------------------------------ Model
\* Model::new
Init ==
    /\ points = <<>>
    /\ lines = <<>>
    /\ op = "new"
    /\ args = <<>>
    /\ ret = <<>>
    /\ outcome = "ok"
    /\ old = [points |-> <<>>, lines |-> <<>>]
    /\ repeated = FALSE
    /\ issued = [points |-> {}, lines |-> {}]
    /\ cascaded = {}
    /\ dangled = FALSE
    /\ order = [points |-> <<>>, lines |-> <<>>]
    /\ count = [n \in OpNames |-> 0]

\* Model::add_point
add_point(x, y, z, w) ==
    /\ Running
    /\ UNCHANGED <<lines, cascaded>>
    /\ LET handle == new_point_handle(points) IN
        /\ handle <= MaxArg
        /\ points' = insert(points, handle, Point(x, y, z, w))
        /\ Record("add_point", <<x, y, z, w>>, handle, "ok")

\* Model::add_line
add_line(p1, p2) ==
    /\ Running
    /\ LET handle == new_line_handle(lines) IN
        /\ handle <= MaxArg
        /\ lines' = insert(lines, handle, Line(p1, p2))
        /\ points' = add_line_to_point(
                         add_line_to_point(points, p1, handle), p2, handle)
        /\ Record("add_line", <<p1, p2>>, handle, "ok")
    /\ UNCHANGED cascaded

\* Model::get_point_lines, called by the user
call_get_point_lines(handle) ==
    /\ Running
    /\ UNCHANGED <<points, lines, cascaded>>
    /\ LET r == get_point_lines(points, handle) IN
        Record("get_point_lines", <<handle>>, r.value,
               IF r.panic THEN "panic" ELSE "ok")

\* every incident-line list without the given line handles
Purged(pts, gone) ==
    LET Stays(h) == h \notin gone
    IN [p \in DOMAIN pts |->
           [pts[p] EXCEPT !.lines = SelectSeq(pts[p].lines, Stays)]]

\* del_line that also takes the handle out of every incident-line list
del_line_purging(handle) ==
    /\ Running
    /\ lines' = remove(lines, handle)
    /\ points' = Purged(points, {handle})
    /\ UNCHANGED cascaded
    /\ Record("del_line", <<handle>>, <<>>, "ok")

\* Model::del_line
del_line(handle) ==
    /\ Running
    /\ lines' = remove(lines, handle)
    /\ UNCHANGED <<points, cascaded>>
    /\ Record("del_line", <<handle>>, <<>>, "ok")

\* del_point that also takes the removed lines out of every other list
del_point_purging(handle) ==
    /\ Running
    /\ LET r == get_point_lines(points, handle) IN
        IF r.panic
        THEN /\ UNCHANGED <<points, lines, cascaded>>
             /\ Record("del_point", <<handle>>, <<>>, "panic")
        ELSE /\ lines' = remove_each(lines, r.value)
             /\ points' = Purged(remove(points, handle), Range(r.value))
             /\ cascaded' = cascaded \cup (Range(r.value) \cap DOMAIN lines)
             /\ Record("del_point", <<handle>>, <<>>, "ok")

\* Model::del_point
del_point(handle) ==
    /\ Running
    /\ LET r == get_point_lines(points, handle) IN
        IF r.panic
        THEN /\ UNCHANGED <<points, lines, cascaded>>
             /\ Record("del_point", <<handle>>, <<>>, "panic")
        ELSE /\ lines' = remove_each(lines, r.value)
             /\ points' = remove(points, handle)
             /\ cascaded' = cascaded \cup (Range(r.value) \cap DOMAIN lines)
             /\ Record("del_point", <<handle>>, <<>>, "ok")

Next ==
    \/ \E c \in CoordInputs : add_point(c[1], c[2], c[3], c[4])
    \/ \E p1, p2 \in ArgHandles : add_line(p1, p2)
    \/ \E h \in ArgHandles : call_get_point_lines(h)
    \/ \E h \in ArgHandles : del_line(h)
    \/ \E h \in ArgHandles : del_point(h)

Spec == Init /\ [][Next]_vars

\* ================================================================= claims
\* handle a fresh collection or a collection with these keys hands out
NextAfter(keys) == IF keys = {} THEN 1 ELSE Max(keys) + 1

\* s is t with only copies of h pushed behind it (at least one)
Pushed(s, t, h) ==
    /\ Len(s) > Len(t)
    /\ SubSeq(s, 1, Len(t)) = t
    /\ \A i \in (Len(t) + 1)..Len(s) : s[i] = h

\* the last two calls were the same operation with the same argument
Repeated(name) == op = name /\ repeated

\* C1: a handle returned by add_point (add_line) is never equal to a handle
\* returned by an earlier add_point (add_line), deleted or not.
C1_HandlesNeverReused ==
    /\ op = "add_point" => ret \notin issued.points
    /\ op = "add_line" => ret \notin issued.lines

\* C2: after del_point(p) on a stored point p, p is no longer a key of
\* points and no line that had p as p1 or p2 is a key of lines.
C2_DelPointRemovesEndpointLines ==
    (op = "del_point" /\ args[1] \in DOMAIN old.points) =>
        /\ args[1] \notin DOMAIN points
        /\ \A l \in DOMAIN old.lines :
              (old.lines[l].p1 = args[1] \/ old.lines[l].p2 = args[1])
                  => l \notin DOMAIN lines

\* C3 (as stated): a second del_point on the same handle right after the
\* first returns normally and leaves points and lines unchanged.
C3_DelPointIdempotent ==
    Repeated("del_point") =>
        /\ outcome = "ok"
        /\ points = old.points
        /\ lines = old.lines

\* C3 (amended): a second del_point on the same handle right after the first
\* panics at the lookup and leaves points and lines unchanged.
C3_SecondDelPointPanics ==
    Repeated("del_point") =>
        /\ outcome = "panic"
        /\ points = old.points
        /\ lines = old.lines

C3_Witness ==
    /\ Repeated("del_point")
    /\ outcome = "panic"
    /\ DOMAIN points # {}

\* C4: get_point_lines(h) and del_point(h) with h not a key of points panic
\* and leave points and lines unchanged.
C4_LookupFailure ==
    (op \in {"get_point_lines", "del_point"}
        /\ args[1] \notin DOMAIN old.points) =>
        /\ outcome = "panic"
        /\ points = old.points
        /\ lines = old.lines

C4_Witness ==
    /\ op = "del_point"
    /\ args[1] \notin DOMAIN old.points
    /\ outcome = "panic"
    /\ DOMAIN lines # {}
    /\ DOMAIN points # {}

\* C5 (as stated): while del_line has never been called, every line handle
\* in the incident-line list of a stored point is a key of lines.
C5_ListsNameStoredLines ==
    count.del_line = 0 =>
        \A p \in DOMAIN points : Range(points[p].lines) \subseteq DOMAIN lines

\* C5 (amended): while del_line has never been called, every line handle in
\* the incident-line list of a stored point is a key of lines or the handle
\* of a line that a del_point removed.
C5_ListsNameStoredOrCascadedLines ==
    count.del_line = 0 =>
        \A p \in DOMAIN points :
            Range(points[p].lines) \subseteq (DOMAIN lines \cup cascaded)

C5_Witness ==
    /\ count.del_line = 0
    /\ op = "del_point"
    /\ outcome = "ok"
    /\ \E p \in DOMAIN points :
          \E h \in Range(points[p].lines) : h \notin DOMAIN lines

\* C6: after add_line(p1, p2) returns l, lines maps l to (p1, p2) and the
\* list of each stored endpoint is its list before the call followed by l.
C6_AddLineAppendsOnce ==
    op = "add_line" =>
        /\ ret \in DOMAIN lines
        /\ lines[ret] = Line(args[1], args[2])
        /\ \A p \in {args[1], args[2]} \cap DOMAIN old.points :
              points[p].lines = Append(old.points[p].lines, ret)

\* C7: add_line(p1, p2) always returns; the line is stored as (p1, p2), no
\* point is created or removed, and every endpoint that is stored gets the
\* new handle pushed behind its list.
C7_AddLineNeverFails ==
    op = "add_line" =>
        /\ outcome = "ok"
        /\ ret \in DOMAIN lines
        /\ lines[ret] = Line(args[1], args[2])
        /\ DOMAIN points = DOMAIN old.points
        /\ \A p \in {args[1], args[2]} \cap DOMAIN old.points :
              Pushed(points[p].lines, old.points[p].lines, ret)

C7_Witness ==
    /\ op = "add_line"
    /\ outcome = "ok"
    /\ args[1] \notin DOMAIN old.points
    /\ args[2] \in DOMAIN old.points
    /\ args[1] \notin DOMAIN points
    /\ Len(points[args[2]].lines) >= 2

\* C8: add_point(x, y, z, w) always returns 1 on empty points, else the
\* greatest key plus 1; the handle then maps to exactly (x, y, z, w) with an
\* empty list; in a run of add_point calls only, the k-th call returns k.
C8_AddPoint ==
    op = "add_point" =>
        /\ outcome = "ok"
        /\ ret = NextAfter(DOMAIN old.points)
        /\ ret \in DOMAIN points
        /\ points[ret] = [x |-> args[1], y |-> args[2], z |-> args[3],
                          w |-> args[4], lines |-> <<>>]
        /\ Total = count.add_point => ret = count.add_point

C8_Witness ==
    /\ op = "add_point"
    /\ Total = count.add_point
    /\ ret = 2
    /\ points[2].y = 2
    /\ points[2].z = -3
    /\ points[1].y = 1

\* C9: add_line returns 1 on empty lines, else the greatest line key plus 1,
\* whatever points holds; with no deletion call so far, the k-th add_line
\* call returns k.
C9_AddLineHandle ==
    op = "add_line" =>
        /\ ret = NextAfter(DOMAIN old.lines)
        /\ (count.del_line = 0 /\ count.del_point = 0)
              => ret = count.add_line

C9_Witness ==
    /\ op = "add_line"
    /\ count.del_line = 0
    /\ count.del_point = 0
    /\ ret = 2
    /\ count.add_point = 2
    /\ points[2].lines = <<>>

\* C10: after del_line(l), l is not a key of lines; the number of lines
\* drops by one if l was a key and is the same if not; every other line is
\* still stored with the same endpoints; del_line on an absent handle
\* returns normally and changes nothing.
C10_DelLine ==
    op = "del_line" =>
        /\ outcome = "ok"
        /\ args[1] \notin DOMAIN lines
        /\ DOMAIN lines = DOMAIN old.lines \ {args[1]}
        /\ \A l \in DOMAIN lines : lines[l] = old.lines[l]
        /\ Cardinality(DOMAIN lines) =
              Cardinality(DOMAIN old.lines)
                  - (IF args[1] \in DOMAIN old.lines THEN 1 ELSE 0)
        /\ args[1] \notin DOMAIN old.lines =>
              (lines = old.lines /\ points = old.points)

C10_Witness ==
    /\ Repeated("del_line")
    /\ args[1] \in issued.lines
    /\ args[1] \notin DOMAIN old.lines
    /\ \E l \in DOMAIN lines : l > args[1]

\* a sequence of handles in strictly ascending order
Ascending(seq) == \A i, j \in 1..Len(seq) : i < j => seq[i] < seq[j]

\* C11: among the stored points, and among the stored lines, a smaller
\* handle was created by an earlier add call: listed in creation order, the
\* stored handles ascend, also when deletions come between the additions.
C11_HandleOrderIsCreationOrder ==
    /\ Range(order.points) = DOMAIN points
    /\ Range(order.lines) = DOMAIN lines
    /\ Ascending(order.points)
    /\ Ascending(order.lines)

C11_Witness ==
    /\ op = "add_point"
    /\ count.del_point >= 1
    /\ ret \in issued.points
    /\ Len(order.points) >= 2
    /\ Len(order.lines) >= 1

\* C12: every key of points and of lines is at least 1, and the first
\* add_point and the first add_line on an empty mapping return 1.
C12_HandlesNeverZero ==
    /\ \A k \in DOMAIN points \cup DOMAIN lines : k >= 1
    /\ (op = "add_point" /\ DOMAIN old.points = {}) => ret = 1
    /\ (op = "add_line" /\ DOMAIN old.lines = {}) => ret = 1

C12_Witness ==
    /\ op = "add_point"
    /\ DOMAIN old.points = {}
    /\ count.add_point = 2
    /\ ret = 1
    /\ 1 \in DOMAIN lines

\* C13: del_line(l) leaves points as it was: same stored points, same
\* coordinates, same incident-line lists, so l stays in the lists it was in.
C13_DelLineKeepsPoints ==
    op = "del_line" => points = old.points

C13_Witness ==
    /\ op = "del_line"
    /\ args[1] \in DOMAIN old.lines
    /\ args[1] \notin DOMAIN lines
    /\ \E p \in DOMAIN points : args[1] \in Range(points[p].lines)

\* C14: del_point(p) on a stored point p changes points only by removing
\* key p: one point fewer, and every other stored point keeps its
\* coordinates and its list, the handles of the removed lines included.
C14_DelPointKeepsOtherPoints ==
    (op = "del_point" /\ args[1] \in DOMAIN old.points) =>
        /\ DOMAIN points = DOMAIN old.points \ {args[1]}
        /\ Cardinality(DOMAIN points) = Cardinality(DOMAIN old.points) - 1
        /\ \A q \in DOMAIN points : points[q] = old.points[q]

C14_Witness ==
    /\ op = "del_point"
    /\ args[1] \in DOMAIN old.points
    /\ \E q \in DOMAIN points :
          \E h \in Range(points[q].lines) :
              h \in DOMAIN old.lines /\ h \notin DOMAIN lines

\* C15: del_point(p) removes from lines only lines that have p as an
\* endpoint: a stored line with both endpoints different from p is still
\* stored, with the same endpoints, after the call.
C15_DelPointRemovesOnlyOwnLines ==
    (op = "del_point" /\ args[1] \in DOMAIN old.points) =>
        \A l \in DOMAIN old.lines :
            (old.lines[l].p1 # args[1] /\ old.lines[l].p2 # args[1]) =>
                (l \in DOMAIN lines /\ lines[l] = old.lines[l])

\* C16: while every add_line call so far named two stored points, each
\* stored line has both endpoints stored and its handle is in the list of
\* both endpoints.
C16_LinesJoinStoredPoints ==
    ~dangled =>
        \A l \in DOMAIN lines :
            \A p \in {lines[l].p1, lines[l].p2} :
                p \in DOMAIN points /\ l \in Range(points[p].lines)

C16_Witness ==
    /\ ~dangled
    /\ op = "add_line"
    /\ count.del_point >= 1
    /\ cascaded # {}
    /\ ret \in cascaded

\* C17: the incident-line list of every stored point holds each line handle
\* at most once.
C17_ListsHaveNoDuplicates ==
    \A p \in DOMAIN points :
        \A i, j \in 1..Len(points[p].lines) :
            i # j => points[p].lines[i] # points[p].lines[j]

\* C18: the handle an add returns is greater than every key its mapping had,
\* the mapping grows by one entry, every line stored before keeps its
\* endpoints and every point stored before keeps its coordinates; add_point
\* leaves lines and every other point's list as they were.
C18_AddNeverOverwrites ==
    /\ op = "add_point" =>
        /\ \A k \in DOMAIN old.points : ret > k
        /\ Cardinality(DOMAIN points) = Cardinality(DOMAIN old.points) + 1
        /\ \A k \in DOMAIN old.points :
              k \in DOMAIN points /\ points[k] = old.points[k]
        /\ lines = old.lines
    /\ op = "add_line" =>
        /\ \A k \in DOMAIN old.lines : ret > k
        /\ Cardinality(DOMAIN lines) = Cardinality(DOMAIN old.lines) + 1
        /\ \A k \in DOMAIN old.lines :
              k \in DOMAIN lines /\ lines[k] = old.lines[k]
        /\ \A k \in DOMAIN old.points :
              /\ k \in DOMAIN points
              /\ [points[k] EXCEPT !.lines = <<>>]
                    = [old.points[k] EXCEPT !.lines = <<>>]

C18_Witness ==
    /\ op = "add_line"
    /\ ret \in issued.lines
    /\ DOMAIN old.lines # {}
    /\ DOMAIN old.points # {}

====
